---- MODULE Spec2Model ----
(***************************************************************************)
(* Decision-fusion core of the fraud scoring service:                      *)
(*   src/src/realtime/rule_engine.py        RuleEngine                     *)
(*   src/src/realtime/realtime_predictor.py RealtimePredictor.predict      *)
(*   src/src/realtime/alert_manager.py      AlertManager                   *)
(*                                                                         *)
(* Numbers.  Scores are fixed-point integers in units of 10^-6 (One is     *)
(* 1.0), amounts are whole dollars, account ages whole days.  Python's     *)
(* round(x, 4) becomes Round4 (nearest multiple of 100 units).             *)
(***************************************************************************)
EXTENDS Integers, Sequences, FiniteSets, TLC

VARIABLES
    rules,          \* RuleEngine.rules: the catalog, a sequence of rule records
    threshold,      \* RealtimePredictor.threshold
    transactions,   \* table transactions, per customer: the aggregates the rules query
    txn,            \* transaction_data of the call in progress / last call
    estimate,       \* model.predict_proba(features)[0, 1] of the last predict
    ml,             \* ml_prediction: the dict returned by RealtimePredictor.predict
    result,         \* the dict returned by RuleEngine.evaluate_transaction
    frame,          \* the locals of the last evaluate_transaction call
    alerts,         \* table fraud_alerts: sequence of rows in insertion order
    seq,            \* sqlite_sequence for fraud_alerts (AUTOINCREMENT high-water mark)
    now,            \* CURRENT_TIMESTAMP, a logical clock
    call,           \* the last operation: its name, arguments and return value
    faults,         \* the rules whose function raises an exception when called
    conn,           \* per request thread: the sqlite3 connection of its create_alert
    issued          \* every alert id a create_alert call has returned so far

vars == <<rules, threshold, transactions, txn, estimate, ml, result, frame,
          alerts, seq, now, call, faults, conn, issued>>

-----------------------------------------------------------------------------
(* Fixed point *)

One == 1000 * 1000

Min(a, b) == IF a < b THEN a ELSE b
Max(a, b) == IF a > b THEN a ELSE b

\* Python round(x, 4) for x >= 0; an exact tie goes to the even neighbour.
Round4(x) ==
    LET q == x \div 100
        r == x % 100
    IN  IF r < 50 THEN q * 100
        ELSE IF r > 50 THEN (q + 1) * 100
        ELSE IF q % 2 = 0 THEN q * 100 ELSE (q + 1) * 100

-----------------------------------------------------------------------------
(* RuleEngine._default_config *)

high_amount_multiplier == 5
new_account_days       == 7
high_risk_amount       == 20000
suspicious_hour_start  == 2
suspicious_hour_end    == 4
low_amount_threshold   == 5000

(* Thresholds and contributions written as literals in the rule functions *)
VeryHighAmount        == 50000     \* transaction_amount > 50000
EstablishedDays       == 365       \* account_age_days >= 365
CleanHistoryMin       == 10        \* total_txn >= 10
RiskKycHigh           == 700000    \* 0.70
RiskKycLow            == 550000    \* 0.55
RiskNewAccountBase    == 750000    \* 0.75
NewAccountFactorCap   == 200000    \* 0.2
NewAccountFactorDiv   == 100000    \* / 100000
RiskCap               == 950000    \* 0.95
RiskAvgBase           == 700000    \* 0.7
RiskAvgSlope          == 50000     \* 0.05
RiskInternational     == 850000    \* 0.85
RiskOddHour           == 600000    \* 0.60
DiscountLowAmount     == 300000    \* -0.30
DiscountEstablished   == 100000    \* -0.10
DiscountHistory       == 150000    \* -0.15
FloorVeryHigh         == 50000     \* 0.05
FloorHigh             == 30000     \* 0.03
HighPriorityCut       == 500000    \* risk_contribution > 0.5
DefaultThreshold      == 500000    \* self.threshold = 0.5

NoCustomer  == "none"     \* customer_id missing or empty: `not customer_id`
NoTimestamp == 99         \* transaction_data.get('timestamp') is None

Hit(c)  == [triggered |-> TRUE, risk |-> c]
Miss    == [triggered |-> FALSE, risk |-> 0]

-----------------------------------------------------------------------------
(* The two history lookups.  db is the transactions table restricted to    *)
(* what the queries aggregate, per customer:                               *)
(*   total = COUNT of rows, fraud = SUM(is_fraud),                         *)
(*   legit_n, legit_sum: count and sum of amounts WHERE is_fraud = 0.      *)

\* AVG(transaction_amount) is legit_sum / legit_n; None when there is no
\* row or the average is 0 (`if result and result[0]`).
HasAverage(db, c) == db[c].legit_n > 0 /\ db[c].legit_sum > 0

\* ratio * 0.05 for ratio = amount / avg = amount * n / s, rounded down to a
\* unit; the product is taken in pieces that stay inside 32 bits, and a ratio
\* past RatioGuard (where min(..., 0.95) is decided anyway) counts as RatioGuard.
RatioGuard == 4 * high_amount_multiplier
SlopeTimesRatio(amount, n, s) ==
    LET x  == amount * n
        q  == Min(x \div s, RatioGuard)
        r  == x % s
        y  == 1000 * r
        hi == RiskAvgSlope \div 1000
    IN  q * RiskAvgSlope + hi * (y \div s) + (hi * (y % s)) \div s

check_high_amount_vs_average(t, db) ==
    IF t.customer_id = NoCustomer THEN Miss
    ELSE IF ~HasAverage(db, t.customer_id) THEN Miss
    ELSE LET n == db[t.customer_id].legit_n
             s == db[t.customer_id].legit_sum
         IN  \* current_amount > multiplier * avg_amount, cross-multiplied
             IF t.transaction_amount * n > high_amount_multiplier * s
             THEN \* min(0.7 + (ratio - multiplier) * 0.05, 0.95)
                  Hit(Min(RiskAvgBase
                          + SlopeTimesRatio(t.transaction_amount, n, s)
                          - RiskAvgSlope * high_amount_multiplier,
                          RiskCap))
             ELSE Miss

\* str.lower() on the channel spellings the inputs use
Lower(c) ==
    CASE c = "International" -> "international"
      [] c = "Web"           -> "web"
      [] c = "OVERSEAS"      -> "overseas"
      [] OTHER               -> c

check_international_unverified(t) ==
    IF Lower(t.channel) \in {"international", "foreign", "overseas"} /\ t.kyc_verified = 0
    THEN Hit(RiskInternational) ELSE Miss

check_odd_hour_wallclock(t) ==
    IF t.hour = NoTimestamp THEN Miss
    ELSE IF suspicious_hour_start <= t.hour + now /\ t.hour + now <= suspicious_hour_end
         THEN Hit(RiskOddHour) ELSE Miss
check_odd_hour(t) ==
    IF t.hour = NoTimestamp THEN Miss
    ELSE IF suspicious_hour_start <= t.hour /\ t.hour <= suspicious_hour_end
         THEN Hit(RiskOddHour) ELSE Miss

check_high_amount_unverified_swapped(t) ==
    IF t.kyc_verified = 0
    THEN IF t.transaction_amount > VeryHighAmount THEN Hit(RiskKycLow)
         ELSE IF t.transaction_amount > high_risk_amount THEN Hit(RiskKycHigh)
         ELSE Miss
    ELSE Miss
check_high_amount_unverified_inclusive(t) ==
    IF t.kyc_verified = 0
    THEN IF t.transaction_amount >= VeryHighAmount THEN Hit(RiskKycHigh)
         ELSE IF t.transaction_amount >= high_risk_amount THEN Hit(RiskKycLow)
         ELSE Miss
    ELSE Miss
check_high_amount_unverified(t) ==
    IF t.kyc_verified = 0
    THEN IF t.transaction_amount > VeryHighAmount THEN Hit(RiskKycHigh)
         ELSE IF t.transaction_amount > high_risk_amount THEN Hit(RiskKycLow)
         ELSE Miss
    ELSE Miss

check_new_account_high_amount_uncapped(t) ==
    IF t.account_age_days < new_account_days /\ t.transaction_amount > high_risk_amount
    THEN Hit(RiskNewAccountBase
             + (t.transaction_amount - high_risk_amount) * (One \div NewAccountFactorDiv))
    ELSE Miss
check_new_account_high_amount(t) ==
    IF t.account_age_days < new_account_days /\ t.transaction_amount > high_risk_amount
    THEN LET amount_factor ==
                 Min((t.transaction_amount - high_risk_amount) * (One \div NewAccountFactorDiv),
                     NewAccountFactorCap)
         IN  Hit(Min(RiskNewAccountBase + amount_factor, RiskCap))
    ELSE Miss

check_low_amount(t) ==
    IF t.transaction_amount > 0 /\ t.transaction_amount < low_amount_threshold
    THEN Hit(0 - DiscountLowAmount) ELSE Miss

check_established_customer(t) ==
    IF t.kyc_verified = 1 /\ t.account_age_days >= EstablishedDays
    THEN Hit(0 - DiscountEstablished) ELSE Miss

check_customer_history(t, db) ==
    IF t.customer_id = NoCustomer THEN Miss
    ELSE IF db[t.customer_id].total > 0
            /\ db[t.customer_id].total >= CleanHistoryMin
            /\ db[t.customer_id].fraud = 0
         THEN Hit(0 - DiscountHistory)
         ELSE Miss

\* rule functions handed to add_rule: each returns (is_triggered, risk_contribution)
CustomRuleFunc(name, t) ==
    CASE name = "custom_a" -> Hit(200000)
      [] name = "custom_b" -> IF t.transaction_amount > 1000 THEN Hit(600000) ELSE Miss
      [] name = "custom_c" -> Hit(0 - 50000)
      [] OTHER             -> Miss

\* rule['func'](transaction_data)
RuleFunc(name, t, db) ==
    CASE name = "high_amount_unverified_kyc"    -> check_high_amount_unverified(t)
      [] name = "new_account_high_amount"       -> check_new_account_high_amount(t)
      [] name = "high_amount_vs_average"        -> check_high_amount_vs_average(t, db)
      [] name = "international_unverified"      -> check_international_unverified(t)
      [] name = "odd_hour_transaction"          -> check_odd_hour(t)
      [] name = "low_amount_trust"              -> check_low_amount(t)
      [] name = "established_customer_discount" -> check_established_customer(t)
      [] name = "good_customer_history"         -> check_customer_history(t, db)
      [] OTHER                                  -> CustomRuleFunc(name, t)

-----------------------------------------------------------------------------
(* The catalog *)

Rule(n, p, r) == [name |-> n, priority |-> p, reason |-> r]

\* list.sort(key=priority, reverse=True): stable, descending priority
RECURSIVE InsertByPriority(_, _)
InsertByPriority(sorted, r) ==
    IF sorted = <<>> THEN <<r>>
    ELSE IF Head(sorted).priority >= r.priority
         THEN <<Head(sorted)>> \o InsertByPriority(Tail(sorted), r)
         ELSE <<r>> \o sorted

RECURSIVE SortByPriority(_)
SortByPriority(s) ==
    IF s = <<>> THEN <<>>
    ELSE InsertByPriority(SortByPriority(SubSeq(s, 1, Len(s) - 1)), s[Len(s)])

\* add_rule: append, then sort again
add_rule_in_front(rs, r) == SortByPriority(<<r>> \o rs)
add_rule(rs, r) == SortByPriority(Append(rs, r))

load_rules ==
    SortByPriority(<<
        Rule("high_amount_unverified_kyc", 6, "High transaction amount without KYC verification"),
        Rule("new_account_high_amount", 5, "New account with high transaction amount"),
        Rule("high_amount_vs_average", 4, "High amount compared to user average"),
        Rule("international_unverified", 3, "International transaction without KYC verification"),
        Rule("odd_hour_transaction", 2, "Transaction during suspicious hours (2-4 AM)"),
        Rule("low_amount_trust", 1, "Low transaction amount (reasonable spending)"),
        Rule("established_customer_discount", 1, "Established verified customer (trust discount)"),
        Rule("good_customer_history", 1, "Customer has clean transaction history")
    >>)

-----------------------------------------------------------------------------
(* RuleEngine.evaluate_transaction *)

\* (an exception leaving the loop would drop the rules after the failing one)
RECURSIVE RunRulesAbort(_, _, _, _)
RunRulesAbort(rs, i, t, db) ==
    IF i > Len(rs) \/ rs[i].name \in faults THEN <<>>
    ELSE LET out == RuleFunc(rs[i].name, t, db)
         IN  (IF out.triggered
              THEN <<[name |-> rs[i].name, reason |-> rs[i].reason,
                      priority |-> rs[i].priority, risk_contribution |-> out.risk]>>
              ELSE <<>>)
             \o RunRulesAbort(rs, i + 1, t, db)

\* the for loop over self.rules: a triggered rule is appended, in catalog order;
\* a rule whose function raises is logged and skipped (try/except in the loop;
\* the two history rules catch the failure of their lookup themselves and
\* return (False, 0.0), to the same effect)
RECURSIVE RunRules(_, _, _, _)
RunRules(rs, i, t, db) ==
    IF i > Len(rs) THEN <<>>
    ELSE LET out == IF rs[i].name \in faults THEN Miss ELSE RuleFunc(rs[i].name, t, db)
         IN  (IF out.triggered
              THEN <<[name |-> rs[i].name, reason |-> rs[i].reason,
                      priority |-> rs[i].priority, risk_contribution |-> out.risk]>>
              ELSE <<>>)
             \o RunRules(rs, i + 1, t, db)

\* rule_risk_scores
Scores(triggered) == [i \in 1..Len(triggered) |-> triggered[i].risk_contribution]

RECURSIVE SeqMax(_)
SeqMax(s) == IF Len(s) = 1 THEN s[1] ELSE Max(s[1], SeqMax(Tail(s)))

RECURSIVE SeqSum(_)
SeqSum(s) == IF s = <<>> THEN 0 ELSE s[1] + SeqSum(Tail(s))

Positive(s) == SelectSeq(s, LAMBDA x : x > 0)
Negative(s) == SelectSeq(s, LAMBDA x : x < 0)

\* max(positive_rules) if positive_rules else 0.0
RuleRiskIncreaseSummed(scores) == SeqSum(Positive(scores))
RuleRiskIncrease(scores) ==
    IF Positive(scores) = <<>> THEN 0 ELSE SeqMax(Positive(scores))

\* sum(negative_rules)
RuleRiskDecrease(scores) == SeqSum(Negative(scores))

\* max(0.0, rule_risk_increase + rule_risk_decrease)
RuleRiskScoreUnfloored(inc, dec) == inc + dec
RuleRiskScore(inc, dec) == Max(0, inc + dec)

\* max(0.0, min(1.0, ml_risk_score + rule_risk_decrease))
AdjustedMlScoreNoDiscount(ml_risk_score, dec) == Max(0, Min(One, ml_risk_score))
AdjustedMlScore(ml_risk_score, dec) == Max(0, Min(One, ml_risk_score + dec))

\* max(adjusted_ml_score, rule_risk_increase)
FusedScoreSummed(ml_risk_score, inc, dec) == AdjustedMlScore(ml_risk_score, dec) + inc
FusedScoreNetOfDiscounts(ml_risk_score, inc, dec) ==
    Max(AdjustedMlScore(ml_risk_score, dec), RuleRiskScore(inc, dec))
FusedScore(ml_risk_score, inc, dec) == Max(AdjustedMlScore(ml_risk_score, dec), inc)

\* the minimum risk floor for large transactions
ApplyFloorSwappedOrder(score, amount) ==
    IF amount > high_risk_amount THEN Max(score, FloorHigh)
    ELSE IF amount > VeryHighAmount THEN Max(score, FloorVeryHigh)
    ELSE score
ApplyFloorOverwrite(score, amount) ==
    IF amount > VeryHighAmount THEN FloorVeryHigh
    ELSE IF amount > high_risk_amount THEN FloorHigh
    ELSE score
ApplyFloor(score, amount) ==
    IF amount > VeryHighAmount THEN Max(score, FloorVeryHigh)
    ELSE IF amount > high_risk_amount THEN Max(score, FloorHigh)
    ELSE score

\* high_priority_rules = [r for r in triggered_rules if r['risk_contribution'] > 0.5]
HighPriorityRules(triggered) ==
    SelectSeq(triggered, LAMBDA r : r.risk_contribution > HighPriorityCut)

\* "Fraud" if (high_priority_rules or ml_prediction_result == "Fraud") else "Legitimate"
FinalPrediction(triggered, ml_prediction_result) ==
    IF HighPriorityRules(triggered) # <<>> \/ ml_prediction_result = "Fraud"
    THEN "Fraud" ELSE "Legitimate"

\* "Fraud" if triggered_rules else "Legitimate", when no ML prediction is passed
RulesOnlyPredictionHighPriority(triggered) ==
    IF HighPriorityRules(triggered) # <<>> THEN "Fraud" ELSE "Legitimate"
RulesOnlyPrediction(triggered) ==
    IF triggered # <<>> THEN "Fraud" ELSE "Legitimate"

NoMl == [present |-> FALSE]

\* The locals of one call: everything evaluate_transaction computes on the way.
Locals(rs, t, mlp, db) ==
    LET triggered == RunRules(rs, 1, t, db)
        scores    == Scores(triggered)
        inc       == RuleRiskIncrease(scores)
        dec       == RuleRiskDecrease(scores)
        rrs       == RuleRiskScore(inc, dec)
    IN  IF mlp.present
        THEN LET fused == FusedScore(mlp.risk_score, inc, dec)
                 final == ApplyFloor(fused, t.transaction_amount)
             IN  [mode |-> "ml", triggered_rules |-> triggered,
                  rule_risk_scores |-> scores,
                  rule_risk_increase |-> inc, rule_risk_decrease |-> dec,
                  rule_risk_score |-> rrs,
                  adjusted_ml_score |-> AdjustedMlScore(mlp.risk_score, dec),
                  fused_score |-> fused,
                  final_risk_score |-> final,
                  final_prediction |-> FinalPrediction(triggered, mlp.prediction)]
        ELSE [mode |-> "rules", triggered_rules |-> triggered,
              rule_risk_scores |-> scores,
              rule_risk_increase |-> inc, rule_risk_decrease |-> dec,
              rule_risk_score |-> rrs,
              final_risk_score |-> rrs,
              final_prediction |-> RulesOnlyPrediction(triggered)]

\* the result dict built from the locals
BuildResult(f, mlp) ==
    [final_prediction |-> f.final_prediction,
     risk_score       |-> Round4(f.final_risk_score),
     ml_risk_score    |-> IF mlp.present THEN Round4(mlp.risk_score) ELSE 0,
     rule_risk_score  |-> Round4(f.rule_risk_score),
     rules_triggered  |-> [i \in 1..Len(f.triggered_rules) |-> f.triggered_rules[i].reason],
     rule_details     |-> f.triggered_rules,
     rules_count      |-> Len(f.triggered_rules)]

evaluate_transaction(rs, t, mlp, db) == BuildResult(Locals(rs, t, mlp, db), mlp)

-----------------------------------------------------------------------------
(* RealtimePredictor.predict *)

\* "Fraud" if risk_score >= self.threshold else "Legitimate", on the raw estimate
RawLabelExclusive(risk_score, thr) ==
    IF risk_score > thr THEN "Fraud" ELSE "Legitimate"
RawLabel(risk_score, thr) ==
    IF risk_score >= thr THEN "Fraud" ELSE "Legitimate"

predict(t, risk_score, thr) ==
    [present        |-> TRUE,
     transaction_id |-> t.transaction_id,
     customer_id    |-> t.customer_id,
     prediction     |-> RawLabel(risk_score, thr),
     risk_score     |-> Round4(risk_score),
     threshold      |-> thr]

-----------------------------------------------------------------------------
(* Inputs *)

Amounts    == {0, 100, 4999, 5000, 5200, 20000, 20001, 30000, 50000, 50001, 60000}
Ages       == {6, 7, 364, 365}
Channels   == {"Web", "International"}
Hours      == {NoTimestamp, 1, 2, 4, 5}
Customers  == {"C1", "C2"}
Estimates  == {0, 100000, 499949, 499960, 500000, 900000, One}
Thresholds == {DefaultThreshold, 300000}

\* ids: the transaction ids (primary key) of the rows stored by /api/predict
History(total, fraud, n, s) ==
    [total |-> total, fraud |-> fraud, legit_n |-> n, legit_sum |-> s, ids |-> {}]
NoHistory == History(0, 0, 0, 0)
\* histories a customer can have: none, ten clean rows averaging $1,000, nine
\* clean rows, twelve rows one of them fraud
Histories == {NoHistory, History(10, 0, 10, 10000), History(9, 0, 9, 9000),
              History(12, 1, 11, 11000)}

Txn(id, c, a, k, d, ch, h) ==
    [transaction_id |-> id, customer_id |-> c, transaction_amount |-> a,
     kyc_verified |-> k, account_age_days |-> d, channel |-> ch, hour |-> h]

FusionTxns ==
    {Txn("T1", c, a, k, d, ch, h) :
        c \in {NoCustomer, "C1"}, a \in Amounts, k \in {0, 1}, d \in Ages,
        ch \in Channels, h \in Hours}

\* the request threads of the server, each with no connection open
Threads == {"w1", "w2"}
Closed  == [w \in Threads |-> [state |-> "closed"]]

NoTxn    == [transaction_id |-> "none"]
NoResult == [final_prediction |-> "none"]
NoFrame  == [mode |-> "none"]
NoCall   == [op |-> "init"]

-----------------------------------------------------------------------------
(* SpecFusion: one transaction through predict and evaluate_transaction;     *)
(* the wall clock moves on with every evaluation                             *)

InitFusion ==
    /\ rules = load_rules
    /\ threshold \in Thresholds
    /\ \E h \in Histories : transactions = [c \in Customers |-> IF c = "C1" THEN h ELSE NoHistory]
    /\ txn \in FusionTxns
    /\ estimate = 0
    /\ ml = NoMl
    /\ result = NoResult
    /\ frame = NoFrame
    /\ alerts = <<>>
    /\ seq = 0
    /\ now = 0
    /\ call = NoCall
    /\ faults = {}
    /\ conn = Closed
    /\ issued = {}

Predict ==
    /\ call.op = "init"
    /\ \E p \in Estimates :
          /\ estimate' = p
          /\ ml' = predict(txn, p, threshold)
    /\ call' = [op |-> "predict"]
    /\ UNCHANGED <<rules, threshold, transactions, txn, result, frame, alerts, seq, now,
                   faults, conn, issued>>

Evaluate ==
    /\ call.op = "predict"
    /\ frame' = Locals(rules, txn, ml, transactions)
    /\ result' = evaluate_transaction(rules, txn, ml, transactions)
    /\ now' = now + 1
    /\ call' = [op |-> "evaluate_transaction"]
    /\ UNCHANGED <<rules, threshold, transactions, txn, estimate, ml, alerts, seq,
                   faults, conn, issued>>

EvaluateRulesOnly ==
    /\ call.op = "init"
    /\ frame' = Locals(rules, txn, NoMl, transactions)
    /\ result' = evaluate_transaction(rules, txn, NoMl, transactions)
    /\ now' = now + 1
    /\ call' = [op |-> "evaluate_transaction"]
    /\ UNCHANGED <<rules, threshold, transactions, txn, estimate, ml, alerts, seq,
                   faults, conn, issued>>

\* the same call made a second time, later by the wall clock
EvaluateAgain ==
    /\ call.op = "evaluate_transaction"
    /\ \E mlp \in {IF frame.mode = "ml" THEN ml ELSE NoMl} :
          /\ frame' = Locals(rules, txn, mlp, transactions)
          /\ result' = evaluate_transaction(rules, txn, mlp, transactions)
    /\ now' = now + 1
    /\ call' = [op |-> "evaluate_again"]
    /\ UNCHANGED <<rules, threshold, transactions, txn, estimate, ml, alerts, seq,
                   faults, conn, issued>>

-----------------------------------------------------------------------------
(* AlertManager: table fraud_alerts *)

NullTime  == 0          \* a TIMESTAMP column that is NULL
NoAlertId == 0          \* create_alert returned None
Null      == "NULL"     \* a TEXT column or an argument that is NULL / None

SeverityCritical == 900000   \* risk_score >= 0.9
SeverityHigh     == 700000   \* risk_score >= 0.7
SeverityMedium   == 500000   \* risk_score >= 0.5

AlertTypes == {"ML", "RULE", "HYBRID"}
Severities == {"LOW", "MEDIUM", "HIGH", "CRITICAL"}
Statuses   == {"NEW", "INVESTIGATING", "RESOLVED", "FALSE_POSITIVE", "CONFIRMED"}
Terminal   == {"RESOLVED", "FALSE_POSITIVE", "CONFIRMED"}

\* the rule_evaluation argument: None, or the dict of an evaluation
Absent == [present |-> FALSE]
Present(rule_evaluation) == [present |-> TRUE] @@ rule_evaluation

\* rule_evaluation.get('final_prediction') if rule_evaluation else
\* ml_prediction.get('prediction') if ml_prediction else 'Legitimate'
DecisionLabelMlFirst(mlp, rule_evaluation) ==
    IF mlp.present THEN mlp.prediction
    ELSE IF rule_evaluation.present THEN rule_evaluation.final_prediction
    ELSE "Legitimate"
DecisionLabel(mlp, rule_evaluation) ==
    IF rule_evaluation.present THEN rule_evaluation.final_prediction
    ELSE IF mlp.present THEN mlp.prediction
    ELSE "Legitimate"

AlertTypeRulesFirst(mlp, rule_evaluation) ==
    LET has_ml    == mlp.present
        has_rules == rule_evaluation.present /\ rule_evaluation.rules_count > 0
    IN  IF has_rules THEN "RULE"
        ELSE IF has_ml THEN "ML"
        ELSE "HYBRID"
AlertType(mlp, rule_evaluation) ==
    LET has_ml    == mlp.present
        has_rules == rule_evaluation.present /\ rule_evaluation.rules_count > 0
    IN  IF has_ml /\ has_rules THEN "HYBRID"
        ELSE IF has_rules THEN "RULE"
        ELSE "ML"

SeverityExclusive(risk_score) ==
    IF risk_score > SeverityCritical THEN "CRITICAL"
    ELSE IF risk_score > SeverityHigh THEN "HIGH"
    ELSE IF risk_score > SeverityMedium THEN "MEDIUM"
    ELSE "LOW"
Severity(risk_score) ==
    IF risk_score >= SeverityCritical THEN "CRITICAL"
    ELSE IF risk_score >= SeverityHigh THEN "HIGH"
    ELSE IF risk_score >= SeverityMedium THEN "MEDIUM"
    ELSE "LOW"

\* alert_id INTEGER PRIMARY KEY AUTOINCREMENT: one more than the largest id the
\* table has ever held (sqlite_sequence), not than the largest id it holds now
NextAlertIdRowid ==
    IF alerts = <<>> THEN 1
    ELSE 1 + (CHOOSE m \in {alerts[i].alert_id : i \in 1..Len(alerts)} :
                 \A i \in 1..Len(alerts) : alerts[i].alert_id <= m)
NextAlertId == seq + 1

\* the row the INSERT writes; the columns left out of the column list take
\* their defaults (created_at, updated_at CURRENT_TIMESTAMP, the rest NULL)
NewAlertRow(id, transaction_id, customer_id, risk_score, mlp, rule_evaluation) ==
    [alert_id         |-> id,
     transaction_id   |-> transaction_id,
     customer_id      |-> customer_id,
     alert_type       |-> AlertType(mlp, rule_evaluation),
     severity         |-> Severity(risk_score),
     status           |-> "NEW",
     risk_score       |-> risk_score,
     ml_prediction    |-> IF mlp.present THEN mlp.prediction ELSE Null,
     triggered_rules  |-> IF rule_evaluation.present THEN rule_evaluation.rules_triggered ELSE <<>>,
     created_at       |-> now,
     updated_at       |-> now,
     resolved_at      |-> NullTime,
     resolved_by      |-> Null,
     resolution_notes |-> Null]

\* The table constraints an INSERT or UPDATE must meet (NOT NULL, CHECK).
RowAcceptedAnyStatus(row) ==
    /\ row.customer_id # NoCustomer
    /\ row.alert_type \in AlertTypes
    /\ row.severity \in Severities
RowAccepted(row) ==
    /\ row.customer_id # NoCustomer
    /\ row.alert_type \in AlertTypes
    /\ row.severity \in Severities
    /\ row.status \in Statuses

\* create_alert: what it returns and the table after it.  db_ok is whether the
\* connection and the INSERT go through; any exception is caught and gives None.
InsertAlertReportsId(transaction_id, customer_id, risk_score, mlp, rule_evaluation, db_ok) ==
    LET row == NewAlertRow(NextAlertId, transaction_id, customer_id, risk_score, mlp, rule_evaluation)
    IN  IF ~db_ok \/ ~RowAccepted(row)
        THEN [ret |-> row.alert_id, alerts |-> alerts, seq |-> seq]
        ELSE [ret |-> row.alert_id, alerts |-> Append(alerts, row), seq |-> row.alert_id]
InsertAlert(transaction_id, customer_id, risk_score, mlp, rule_evaluation, db_ok) ==
    LET row == NewAlertRow(NextAlertId, transaction_id, customer_id, risk_score, mlp, rule_evaluation)
    IN  IF ~db_ok \/ ~RowAccepted(row)
        THEN [ret |-> NoAlertId, alerts |-> alerts, seq |-> seq]
        ELSE [ret |-> row.alert_id, alerts |-> Append(alerts, row), seq |-> row.alert_id]

create_alert_unguarded(transaction_id, customer_id, risk_score, mlp, rule_evaluation, db_ok) ==
    InsertAlert(transaction_id, customer_id, risk_score, mlp, rule_evaluation, db_ok)
create_alert(transaction_id, customer_id, risk_score, mlp, rule_evaluation, db_ok) ==
    IF DecisionLabel(mlp, rule_evaluation) # "Fraud"
    THEN [ret |-> NoAlertId, alerts |-> alerts, seq |-> seq]
    ELSE InsertAlert(transaction_id, customer_id, risk_score, mlp, rule_evaluation, db_ok)

\* the two UPDATE statements of update_alert_status, applied to one row
UpdatedRow(row, status, notes, resolved_by) ==
    IF status \in {"RESOLVED", "FALSE_POSITIVE", "CONFIRMED"}
    THEN [row EXCEPT !.status = status, !.updated_at = now, !.resolved_at = now,
                     !.resolution_notes = notes, !.resolved_by = resolved_by]
    ELSE [row EXCEPT !.status = status, !.updated_at = now]

\* update_alert_status: the table after it.  The UPDATE touches the rows WHERE
\* alert_id = ?; a row that would break a CHECK aborts the statement, and the
\* exception is caught and logged.
update_alert_status_every_row(alert_id, status, notes, resolved_by, db_ok) ==
    LET after == [i \in 1..Len(alerts) |-> UpdatedRow(alerts[i], status, notes, resolved_by)]
    IN  IF db_ok /\ \A i \in 1..Len(after) : RowAccepted(after[i])
        THEN after ELSE alerts
update_alert_status(alert_id, status, notes, resolved_by, db_ok) ==
    LET after == [i \in 1..Len(alerts) |->
                    IF alerts[i].alert_id = alert_id
                    THEN UpdatedRow(alerts[i], status, notes, resolved_by)
                    ELSE alerts[i]]
    IN  IF db_ok /\ \A i \in 1..Len(after) : RowAccepted(after[i])
        THEN after ELSE alerts

\* what update_alert_status writes to the log: the except branch logs an error
\* and returns, otherwise the info line is written
UpdateLogged(alert_id, status, notes, resolved_by, db_ok) ==
    IF db_ok /\ \A i \in 1..Len(alerts) :
                   alerts[i].alert_id = alert_id
                     => RowAccepted(UpdatedRow(alerts[i], status, notes, resolved_by))
    THEN "info" ELSE "error"

-----------------------------------------------------------------------------
(* SpecFusion, continued: the decision handed to create_alert *)

\* create_alert on the evaluated transaction; passed says which of the two
\* results the caller hands over: both, the ML prediction alone, or the rule
\* evaluation alone
RaiseAlert ==
    /\ call.op = "evaluate_transaction"
    /\ \E passed \in (IF frame.mode = "ml" THEN {"both", "ml", "rules"} ELSE {"rules"}) :
       \E mlp \in {IF passed \in {"both", "ml"} THEN ml ELSE NoMl} :
       \E re \in {IF passed \in {"both", "rules"} THEN Present(result) ELSE Absent} :
       \E created \in {create_alert(txn.transaction_id, txn.customer_id,
                                     IF re.present THEN re.risk_score ELSE mlp.risk_score,
                                     mlp, re, TRUE)} :
          /\ alerts' = created.alerts
          /\ seq' = created.seq
          /\ issued' = IF created.ret # NoAlertId THEN issued \cup {created.ret} ELSE issued
          /\ call' = [op |-> "create_alert", passed |-> passed,
                      label |-> DecisionLabel(mlp, re), ret |-> created.ret]
    /\ UNCHANGED <<rules, threshold, transactions, txn, estimate, ml, result, frame, now,
                   faults, conn>>

NextFusion == Predict \/ Evaluate \/ EvaluateRulesOnly \/ EvaluateAgain \/ RaiseAlert

SpecFusion == InitFusion /\ [][NextFusion]_vars

-----------------------------------------------------------------------------
(* SpecFaults: the same calls while some rule functions raise *)

RuleNames == {load_rules[i].name : i \in 1..Len(load_rules)}

\* one rule raising, whichever it is, or the first and the last of the catalog
FaultSets == {{n} : n \in RuleNames}
             \cup {{"high_amount_unverified_kyc", "good_customer_history"}}

FaultTxns ==
    {Txn("T1", "C1", a, k, d, ch, h) :
        a \in {100, 30000, 60000}, k \in {0, 1}, d \in {6, 365},
        ch \in Channels, h \in {NoTimestamp, 2}}

InitFaults ==
    /\ rules = load_rules
    /\ threshold = DefaultThreshold
    /\ transactions = [c \in Customers |-> IF c = "C1" THEN History(10, 0, 10, 10000)
                                                        ELSE NoHistory]
    /\ txn \in FaultTxns
    /\ estimate = 0
    /\ ml = NoMl
    /\ result = NoResult
    /\ frame = NoFrame
    /\ alerts = <<>>
    /\ seq = 0
    /\ now = 0
    /\ call = NoCall
    /\ faults \in FaultSets
    /\ conn = Closed
    /\ issued = {}

SpecFaults == InitFaults /\ [][NextFusion]_vars

-----------------------------------------------------------------------------
(* The service: /api/predict and the alert operations *)

MaxClock == 3

\* the requests to /api/predict with the estimate the model gives each
PredictCalls ==
    { <<Txn("T1", "C1", 100, 1, 365, "Web", NoTimestamp), 0>>,
      <<Txn("T1", "C1", 100, 1, 365, "Web", NoTimestamp), 900000>>,
      <<Txn("T2", "C2", 60000, 0, 6, "International", 2), 0>> }
UpdateStatuses == Statuses \cup {"REOPENED"}

\* STEP 6 of predict_fraud: the INSERT INTO transactions, on the aggregates; a
\* transaction_id already in the table breaks the primary key, and the
\* exception is caught and printed
StoreTransaction(db, t, final_prediction) ==
    LET c == t.customer_id
        h == db[c]
    IN  IF \E k \in DOMAIN db : t.transaction_id \in db[k].ids
        THEN db
        ELSE [db EXCEPT ![c] =
                IF final_prediction = "Fraud"
                THEN [h EXCEPT !.total = @ + 1, !.fraud = @ + 1,
                               !.ids = @ \cup {t.transaction_id}]
                ELSE [h EXCEPT !.total = @ + 1, !.legit_n = @ + 1,
                               !.legit_sum = @ + t.transaction_amount,
                               !.ids = @ \cup {t.transaction_id}]]

Init ==
    /\ rules = load_rules
    /\ threshold = DefaultThreshold
    /\ transactions = [c \in Customers |-> IF c = "C1" THEN History(10, 0, 10, 10000) ELSE NoHistory]
    /\ txn = NoTxn
    /\ estimate = 0
    /\ ml = NoMl
    /\ result = NoResult
    /\ frame = NoFrame
    /\ alerts = <<>>
    /\ seq = 0
    /\ now = 1
    /\ call = NoCall
    /\ faults = {}
    /\ conn = Closed
    /\ issued = {}

\* predictor.predict(data) as predict_fraud sees it: the prediction, or the
\* RuntimeError "Model not loaded" (any exception of predict_proba alike)
Raised == [present |-> FALSE, raised |-> TRUE]
predict_with_fallback(t, risk_score, thr, model_loaded) ==
    predict(t, IF model_loaded THEN risk_score ELSE 0, thr)
predict_or_raise(t, risk_score, thr, model_loaded) ==
    IF model_loaded THEN predict(t, risk_score, thr) ELSE Raised

\* the body of the response, and the request it answers
Response(c, model_loaded, alert_ok, http, label, risk_score, triggered_rules, alert_id) ==
    [op |-> "predict_fraud", http |-> http, request |-> c,
     model_loaded |-> model_loaded, writable |-> alert_ok,
     transaction_id |-> c[1].transaction_id, customer_id |-> c[1].customer_id,
     label |-> label, risk_score |-> risk_score,
     triggered_rules |-> triggered_rules, ret |-> alert_id]

\* predict_fraud from STEP 1 on, with a valid request c = <<transaction,
\* estimate, ...>>: predict, evaluate, create the alert when the label is Fraud,
\* store the transaction, answer 200; an exception of predict ends in the outer
\* except, answer 500.
ServePrediction(c, model_loaded, alert_ok, store_ok) ==
    \E ml_prediction \in {predict_or_raise(c[1], c[2], threshold, model_loaded)} :
      IF ~ml_prediction.present
      THEN /\ call' = Response(c, model_loaded, alert_ok, 500, "none", 0, <<>>, NoAlertId)
           /\ UNCHANGED <<alerts, seq, transactions, now>>
      ELSE \E rule_evaluation \in {evaluate_transaction(rules, c[1], ml_prediction, transactions)} :
           \E created \in {IF rule_evaluation.final_prediction = "Fraud"
                            THEN create_alert(c[1].transaction_id, c[1].customer_id,
                                              rule_evaluation.risk_score, ml_prediction,
                                              Present(rule_evaluation), alert_ok)
                            ELSE [ret |-> NoAlertId, alerts |-> alerts, seq |-> seq]} :
             /\ alerts' = created.alerts
             /\ seq' = created.seq
             /\ transactions' = IF store_ok
                                THEN StoreTransaction(transactions, c[1],
                                                      rule_evaluation.final_prediction)
                                ELSE transactions
             /\ call' = Response(c, model_loaded, alert_ok, 200,
                                 rule_evaluation.final_prediction,
                                 Round4(rule_evaluation.risk_score),
                                 rule_evaluation.rules_triggered, created.ret)
             /\ now' = IF alerts' # alerts \/ transactions' # transactions
                       THEN now + 1 ELSE now

\* predict_fraud with a valid request (the two stores are never reached when
\* predict raises, so their condition is left open only when the model is
\* loaded).
PredictFraud ==
    /\ now <= MaxClock
    /\ \E c \in PredictCalls, model_loaded \in BOOLEAN, alert_ok \in BOOLEAN, store_ok \in BOOLEAN :
        /\ model_loaded \/ (alert_ok /\ store_ok)
        /\ ServePrediction(c, model_loaded, alert_ok, store_ok)
    /\ issued' = IF call'.ret # NoAlertId THEN issued \cup {call'.ret} ELSE issued
    /\ UNCHANGED <<rules, threshold, txn, estimate, ml, result, frame, faults, conn>>

\* the arguments of a direct create_alert call: <<transaction, estimate, which
\* results are passed>>: both, the rule evaluation alone (rules-only mode), the
\* ML prediction alone, or neither
DirectCalls ==
    { <<Txn("T1", "C1", 100, 1, 365, "Web", NoTimestamp), 0, "both">>,
      <<Txn("T2", "C2", 60000, 0, 6, "International", 2), 0, "rules">>,
      <<Txn("T1", "C1", 100, 1, 365, "Web", NoTimestamp), 900000, "ml">>,
      <<Txn("T1", "C1", 100, 1, 365, "Web", NoTimestamp), 0, "ml">>,
      <<Txn("T1", "C1", 100, 1, 365, "Web", NoTimestamp), 0, "neither">> }

CreateAlert ==
    /\ now <= MaxClock
    /\ \E c \in DirectCalls, db_ok \in BOOLEAN :
          LET t    == c[1]
              mlp  == IF c[3] \in {"both", "ml"} THEN predict(t, c[2], threshold) ELSE NoMl
              re   == IF c[3] \in {"both", "rules"}
                      THEN Present(evaluate_transaction(rules, t, mlp, transactions))
                      ELSE Absent
              risk == IF re.present THEN re.risk_score
                      ELSE IF mlp.present THEN mlp.risk_score ELSE 0
          IN  /\ call' = [op |-> "create_alert", label |-> DecisionLabel(mlp, re),
                          writable |-> db_ok,
                          ret |-> create_alert(t.transaction_id, t.customer_id, risk, mlp, re, db_ok).ret]
              /\ alerts' = IF call'.ret # NoAlertId
                           THEN create_alert(t.transaction_id, t.customer_id, risk, mlp, re, db_ok).alerts
                           ELSE alerts
              /\ seq' = IF call'.ret # NoAlertId THEN call'.ret ELSE seq
              /\ now' = IF call'.ret # NoAlertId THEN now + 1 ELSE now
    /\ issued' = IF call'.ret # NoAlertId THEN issued \cup {call'.ret} ELSE issued
    /\ UNCHANGED <<rules, threshold, transactions, txn, estimate, ml, result, frame,
                   faults, conn>>

\* the arguments of an update_alert_status call: <<status, notes, resolved_by>>
UpdateCalls == {<<status, "checked", "analyst">> : status \in UpdateStatuses}

UpdateAlertStatus ==
    /\ now <= MaxClock
    /\ \E id \in 1..(seq + 1), c \in UpdateCalls :
          /\ alerts' = update_alert_status(id, c[1], c[2], c[3], TRUE)
          /\ now' = IF alerts' # alerts THEN now + 1 ELSE now
          /\ call' = [op |-> "update_alert_status", alert_id |-> id, status |-> c[1],
                      logged |-> UpdateLogged(id, c[1], c[2], c[3], TRUE),
                      ret |-> NoAlertId]
    /\ UNCHANGED <<rules, threshold, transactions, txn, estimate, ml, result, frame, seq,
                   faults, conn, issued>>

Next == PredictFraud \/ CreateAlert \/ UpdateAlertStatus

Spec == Init /\ [][Next]_vars

-----------------------------------------------------------------------------
(* SpecAlerts: create_alert from concurrent request threads.  Each call opens *)
(* its own connection; the INSERT starts a transaction that holds the         *)
(* database write lock until conn.commit(), and a second writer meanwhile     *)
(* gets "database is locked", which create_alert catches.                     *)

WriteLocked == \E w \in Threads : conn[w].state = "inserted"

\* create_alert up to cursor.execute(INSERT) and cursor.lastrowid
ExecuteInsert(w) ==
    /\ now <= MaxClock
    /\ conn[w].state = "closed"
    /\ \E c \in DirectCalls :
          LET t    == c[1]
              mlp  == IF c[3] \in {"both", "ml"} THEN predict(t, c[2], threshold) ELSE NoMl
              re   == IF c[3] \in {"both", "rules"}
                      THEN Present(evaluate_transaction(rules, t, mlp, transactions))
                      ELSE Absent
              risk == IF re.present THEN re.risk_score
                      ELSE IF mlp.present THEN mlp.risk_score ELSE 0
              row  == NewAlertRow(NextAlertId, t.transaction_id, t.customer_id, risk, mlp, re)
          IN  IF DecisionLabel(mlp, re) = "Fraud" /\ ~WriteLocked /\ RowAccepted(row)
              THEN /\ conn' = [conn EXCEPT ![w] = [state |-> "inserted", row |-> row]]
                   /\ call' = [op |-> "insert", thread |-> w, label |-> "Fraud",
                               ret |-> NoAlertId]
              ELSE /\ conn' = conn
                   /\ call' = [op |-> "create_alert", thread |-> w,
                               label |-> DecisionLabel(mlp, re), ret |-> NoAlertId]
    /\ UNCHANGED <<rules, threshold, transactions, txn, estimate, ml, result, frame,
                   alerts, seq, now, faults, issued>>

\* conn.commit(), conn.close(), return alert_id
Commit(w) ==
    /\ conn[w].state = "inserted"
    /\ alerts' = Append(alerts, conn[w].row)
    /\ seq' = conn[w].row.alert_id
    /\ issued' = issued \cup {conn[w].row.alert_id}
    /\ conn' = [conn EXCEPT ![w] = [state |-> "closed"]]
    /\ call' = [op |-> "create_alert", thread |-> w, label |-> "Fraud",
                ret |-> conn[w].row.alert_id]
    /\ now' = now + 1
    /\ UNCHANGED <<rules, threshold, transactions, txn, estimate, ml, result, frame, faults>>

\* conn.commit() raises: the transaction is rolled back, the except returns None
CommitFails(w) ==
    /\ conn[w].state = "inserted"
    /\ conn' = [conn EXCEPT ![w] = [state |-> "closed"]]
    /\ call' = [op |-> "create_alert", thread |-> w, label |-> "Fraud", ret |-> NoAlertId]
    /\ UNCHANGED <<rules, threshold, transactions, txn, estimate, ml, result, frame,
                   alerts, seq, now, faults, issued>>

\* DELETE FROM fraud_alerts WHERE ...: rows go, sqlite_sequence stays
DeleteAlerts ==
    /\ now <= MaxClock
    /\ ~WriteLocked
    /\ alerts # <<>>
    /\ \E keep \in SUBSET {alerts[i].alert_id : i \in 1..Len(alerts)} :
          /\ alerts' = SelectSeq(alerts, LAMBDA r : r.alert_id \in keep)
          /\ alerts' # alerts
    /\ call' = [op |-> "delete", ret |-> NoAlertId]
    /\ now' = now + 1
    /\ UNCHANGED <<rules, threshold, transactions, txn, estimate, ml, result, frame,
                   seq, faults, conn, issued>>

NextAlerts ==
    \/ \E w \in Threads : ExecuteInsert(w)
    \/ \E w \in Threads : Commit(w)
    \/ \E w \in Threads : CommitFails(w)
    \/ DeleteAlerts

SpecAlerts == Init /\ [][NextAlerts]_vars

-----------------------------------------------------------------------------
(* What the claims speak of, stated on the triggered rules as a set *)

EvaluatedWithMl == frame.mode = "ml"
EvaluatedRulesOnly == frame.mode = "rules"
Evaluated == EvaluatedWithMl \/ EvaluatedRulesOnly

\* the contributions of the triggered rules, by position in rule_details
Triggered == 1..Len(result.rule_details)
Contribution(i) == result.rule_details[i].risk_contribution

RECURSIVE SumOver(_)
SumOver(S) ==
    IF S = {} THEN 0
    ELSE LET i == CHOOSE j \in S : TRUE IN Contribution(i) + SumOver(S \ {i})

MaxPositive ==
    LET P == {Contribution(i) : i \in {j \in Triggered : Contribution(j) > 0}}
    IN  IF P = {} THEN 0 ELSE CHOOSE m \in P : \A x \in P : x <= m
SumNegative == SumOver({i \in Triggered : Contribution(i) < 0})

Clamp01(x) == IF x < 0 THEN 0 ELSE IF x > One THEN One ELSE x

Reverse(s) == [i \in 1..Len(s) |-> s[Len(s) + 1 - i]]

\* C1: with an ML prediction supplied, the returned risk_score lies in [0, 1].
C1_RiskScoreInRange ==
    EvaluatedWithMl => (0 <= result.risk_score /\ result.risk_score <= One)

\* the discounts exceed the estimate: the sum is negative, the score is 0
C1_Witness ==
    /\ EvaluatedWithMl
    /\ ml.risk_score > 0
    /\ ml.risk_score + frame.rule_risk_decrease < 0
    /\ result.risk_score = 0

C3_FloorOnly ==
    ( /\ EvaluatedWithMl
      /\ txn.transaction_amount > VeryHighAmount
      /\ estimate = 0
      /\ ml.prediction = "Legitimate"
      /\ result.rules_count = 0 )
    => (result.risk_score = FloorVeryHigh /\ result.final_prediction = "Legitimate")

C3_Witness ==
    /\ EvaluatedWithMl
    /\ txn.transaction_amount = 60000
    /\ estimate = 0
    /\ ml.prediction = "Legitimate"
    /\ result.rules_count = 0
    /\ result.risk_score = FloorVeryHigh

\* C4: ruleRiskIncrease is the maximum positive contribution (0 without one),
\* never the sum; ruleRiskDecrease is the sum of the negative contributions, so
\* <= 0; neither depends on the order in which the rules are evaluated.
C4_Aggregation ==
    Evaluated =>
        /\ frame.rule_risk_increase = MaxPositive
        /\ frame.rule_risk_decrease = SumNegative
        /\ frame.rule_risk_decrease <= 0
        /\ LET back == Scores(RunRules(Reverse(rules), 1, txn, transactions))
           IN  /\ RuleRiskIncrease(back) = frame.rule_risk_increase
               /\ RuleRiskDecrease(back) = frame.rule_risk_decrease

\* 0.70 and 0.85 triggered together, no discount: the increase is 0.85
C4_Witness ==
    /\ Evaluated
    /\ \E i, j \in Triggered : Contribution(i) = RiskKycHigh /\ Contribution(j) = RiskInternational
    /\ \A i \in Triggered : Contribution(i) \in {RiskKycHigh, RiskInternational}
    /\ frame.rule_risk_decrease = 0
    /\ frame.rule_risk_increase = RiskInternational

\* C5: rule_risk_score is in [0, 1], also when the discounts outweigh the
\* strongest positive contribution.
C5_RuleRiskScoreInRange ==
    Evaluated => (0 <= result.rule_risk_score /\ result.rule_risk_score <= One)

C5_Witness ==
    /\ Evaluated
    /\ frame.rule_risk_increase + frame.rule_risk_decrease < 0
    /\ result.rule_risk_score = 0

\* C6: before the floor the score is max(clamp(p + ruleRiskDecrease, 0, 1),
\* ruleRiskIncrease), p the probability the prediction carries; with no positive
\* rule, amount <= $20,000, discounts of -0.55 and p = 0.10 the score is 0.
C6_FusedScore ==
    EvaluatedWithMl =>
        /\ frame.adjusted_ml_score = Clamp01(ml.risk_score + SumNegative)
        /\ frame.fused_score = Max(Clamp01(ml.risk_score + SumNegative), MaxPositive)
        /\ ( /\ MaxPositive = 0
             /\ txn.transaction_amount <= high_risk_amount
             /\ SumNegative = 0 - (DiscountLowAmount + DiscountEstablished + DiscountHistory)
             /\ ml.risk_score = 100000 )
           => result.risk_score = 0

C6_Witness ==
    /\ EvaluatedWithMl
    /\ MaxPositive = 0
    /\ txn.transaction_amount <= high_risk_amount
    /\ result.rules_count = 3
    /\ SumNegative = 0 - 550000
    /\ ml.risk_score = 100000
    /\ result.risk_score = 0

\* C7: the floor only raises: above $50,000 the score is max(pre-floor, 0.05),
\* above $20,000 up to $50,000 it is max(pre-floor, 0.03), otherwise the
\* pre-floor score unchanged.
C7_AmountFloor ==
    EvaluatedWithMl =>
        LET a   == txn.transaction_amount
            pre == frame.fused_score
        IN  /\ frame.final_risk_score >= pre
            /\ a > 50000 => frame.final_risk_score = Max(pre, 50000)
            /\ (a > 20000 /\ a <= 50000) => frame.final_risk_score = Max(pre, 30000)
            /\ a <= 20000 => frame.final_risk_score = pre
            /\ result.risk_score = Round4(frame.final_risk_score)

\* exactly $50,000 takes the 0.03 floor
C7_Witness ==
    /\ EvaluatedWithMl
    /\ txn.transaction_amount = 50000
    /\ frame.fused_score = 0
    /\ result.risk_score = FloorHigh

\* exactly $20,000 takes none; a score above the floor is left alone
C7_WitnessNoFloor ==
    /\ EvaluatedWithMl
    /\ txn.transaction_amount = 20000
    /\ frame.fused_score = 0
    /\ result.risk_score = 0

-----------------------------------------------------------------------------
(* The alert store *)

Rows == 1..Len(alerts)

\* C8: create_alert returns None and inserts no row for a decision whose label
\* is not Fraud; every row that appears in the store comes from a decision
\* labelled Fraud.
C8_AlertOnlyOnFraud ==
    [][ /\ (call'.op = "create_alert" /\ call'.label # "Fraud")
            => (call'.ret = NoAlertId /\ alerts' = alerts)
        /\ Len(alerts') > Len(alerts)
            => (call'.op \in {"create_alert", "predict_fraud"} /\ call'.label = "Fraud")
      ]_vars

\* a Legitimate decision handed to create_alert while the store holds an alert
C8_Witness ==
    /\ call.op = "create_alert"
    /\ call.label = "Legitimate"
    /\ call.ret = NoAlertId
    /\ Len(alerts) >= 1

\* C9: once an alert is RESOLVED, FALSE_POSITIVE or CONFIRMED, no later
\* update_alert_status call changes its status.
C9_TerminalIsFinal ==
    [][ \A i \in Rows : alerts[i].status \in Terminal
                          => alerts'[i].status = alerts[i].status ]_vars

\* C10: an alert carries a resolution stamp exactly when its status is RESOLVED,
\* FALSE_POSITIVE or CONFIRMED, and a stamp once written is not overwritten.
C10_StampIffTerminal ==
    [][ /\ \A i \in 1..Len(alerts') :
              (alerts'[i].resolved_at # NullTime) <=> (alerts'[i].status \in Terminal)
        /\ \A i \in Rows : alerts[i].resolved_at # NullTime
              => /\ alerts'[i].resolved_at = alerts[i].resolved_at
                 /\ alerts'[i].resolved_by = alerts[i].resolved_by
                 /\ alerts'[i].resolution_notes = alerts[i].resolution_notes
      ]_vars

\* C11: an alert is created with status NEW and an id above every id a
\* create_alert call returned before it, whatever the interleaving of the
\* request threads and whatever was deleted meanwhile; the stored ids are distinct.
C11_FreshAlertIds ==
    [][ /\ (call'.op = "create_alert" /\ call'.ret # NoAlertId)
            => /\ \A id \in issued : call'.ret > id
               /\ \E i \in 1..Len(alerts') :
                     /\ alerts'[i].alert_id = call'.ret
                     /\ alerts'[i].status = "NEW"
                     /\ \A j \in 1..Len(alerts') : alerts'[j].alert_id = call'.ret => j = i
        /\ \A i, j \in 1..Len(alerts') :
              alerts'[i].alert_id = alerts'[j].alert_id => i = j
      ]_vars

\* the alert with the largest id was deleted and a later create_alert returned
C11_Witness ==
    /\ call.op = "create_alert"
    /\ call.ret = 2
    /\ issued = {1, 2}
    /\ Len(alerts) = 1
    /\ alerts[1].alert_id = 2

-----------------------------------------------------------------------------
(* /api/predict *)

Answered(c) == c.op = "predict_fraud" /\ c.http = 200

\* C12: a /api/predict call that answers Fraud while the alert store takes the
\* write stores exactly one new alert (status NEW, the request's transaction and
\* customer id) and returns its id; a call that answers Legitimate returns no
\* alert id and leaves the stored alerts as they were.
C12_OneAlertPerFraud ==
    [][ Answered(call') =>
          /\ (call'.label = "Fraud" /\ call'.writable) =>
                /\ Len(alerts') = Len(alerts) + 1
                /\ SubSeq(alerts', 1, Len(alerts)) = alerts
                /\ call'.ret # NoAlertId
                /\ alerts'[Len(alerts')].alert_id = call'.ret
                /\ alerts'[Len(alerts')].status = "NEW"
                /\ alerts'[Len(alerts')].transaction_id = call'.transaction_id
                /\ alerts'[Len(alerts')].customer_id = call'.customer_id
          /\ call'.label = "Legitimate" =>
                (call'.ret = NoAlertId /\ alerts' = alerts)
      ]_vars

\* a Fraud forced by the rules on an estimate of 0, as the second alert stored
C12_Witness ==
    /\ Answered(call)
    /\ call.label = "Fraud"
    /\ call.request[2] = 0
    /\ call.writable
    /\ call.ret = 2
    /\ Len(alerts) = 2
    /\ alerts[2].transaction_id = call.transaction_id

\* C16: with the estimator unavailable /api/predict fails as a whole: no label,
\* no score from a substitute probability, no alert and no transaction stored.
C16_EstimatorUnavailable ==
    [][ (call'.op = "predict_fraud" /\ ~call'.model_loaded) =>
          /\ call'.http = 500
          /\ call'.label \notin {"Fraud", "Legitimate"}
          /\ call'.ret = NoAlertId
          /\ alerts' = alerts
          /\ seq' = seq
          /\ transactions' = transactions
      ]_vars

\* the request the rules would label Fraud, the model not loaded
C16_Witness ==
    /\ call.op = "predict_fraud"
    /\ ~call.model_loaded
    /\ call.request[1].transaction_amount = 60000
    /\ call.http = 500
    /\ \A c \in Customers : transactions[c].ids = {}

\* C17: when the alert write fails create_alert returns None, and /api/predict
\* answers with the prediction, risk score and triggered rules of the decision
\* it computed, the alert id alone being null.
C17_AlertWriteFailure ==
    [][ /\ (call'.op = "create_alert" /\ ~call'.writable) =>
              (call'.ret = NoAlertId /\ alerts' = alerts)
        /\ (Answered(call') /\ call'.label = "Fraud" /\ ~call'.writable) =>
              LET t        == call'.request[1]
                  mlp      == predict(t, call'.request[2], threshold)
                  decision == evaluate_transaction(rules, t, mlp, transactions)
              IN  /\ call'.ret = NoAlertId
                  /\ alerts' = alerts
                  /\ call'.label = decision.final_prediction
                  /\ call'.risk_score = Round4(decision.risk_score)
                  /\ call'.triggered_rules = decision.rules_triggered
      ]_vars

\* a Fraud answered without an alert id while the store refuses the write
C17_Witness ==
    /\ Answered(call)
    /\ call.label = "Fraud"
    /\ ~call.writable
    /\ call.ret = NoAlertId
    /\ call.risk_score > 0
    /\ Len(call.triggered_rules) > 0

Distance(a, b) == IF a >= b THEN a - b ELSE b - a

\* C19: the same transaction submitted to /api/predict twice in succession gets
\* the same label both times and risk scores less than 0.05 apart.
C19_SameTwice ==
    [][ (Answered(call) /\ Answered(call') /\ call'.request = call.request) =>
          /\ call'.label = call.label
          /\ Distance(call'.risk_score, call.risk_score) < 50000
      ]_vars

-----------------------------------------------------------------------------
(* The alert written for a decision *)

Raised1 == call.op = "create_alert" /\ call.ret # NoAlertId /\ Len(alerts) = 1

\* C13: every stored alert carries the severity its stored risk_score maps to:
\* CRITICAL from 0.90, HIGH from 0.70 below 0.90, MEDIUM from 0.50 below 0.70,
\* LOW below 0.50, each lower bound inclusive.
C13_SeverityOfScore ==
    \A i \in Rows :
        LET score == alerts[i].risk_score
            sev   == alerts[i].severity
        IN  /\ sev \in {"CRITICAL", "HIGH", "MEDIUM", "LOW"}
            /\ sev = "CRITICAL" <=> score >= 900000
            /\ sev = "HIGH"     <=> (700000 <= score /\ score < 900000)
            /\ sev = "MEDIUM"   <=> (500000 <= score /\ score < 700000)
            /\ sev = "LOW"      <=> score < 500000

\* a stored score of exactly 0.70
C13_Witness ==
    /\ Raised1
    /\ alerts[1].risk_score = 700000
    /\ alerts[1].severity = "HIGH"

\* C14: the alert type is HYBRID when an estimator prediction is passed and at
\* least one rule triggered, RULE when rules triggered and no estimator
\* prediction is passed, ML otherwise.
C14_AlertTypeOfSources ==
    Raised1 =>
        LET has_ml    == call.passed \in {"both", "ml"}
            has_rules == call.passed \in {"both", "rules"} /\ result.rules_count >= 1
        IN  alerts[1].alert_type =
                IF has_ml /\ has_rules THEN "HYBRID"
                ELSE IF has_rules THEN "RULE"
                ELSE "ML"

\* the estimator's Fraud with only discounts triggered is still HYBRID
C14_Witness ==
    /\ Raised1
    /\ call.passed = "both"
    /\ result.rules_count >= 1
    /\ \A i \in Triggered : Contribution(i) < 0
    /\ alerts[1].alert_type = "HYBRID"

C20_MonotoneAcross50k ==
    ( /\ call.op = "evaluate_transaction"
      /\ EvaluatedWithMl
      /\ txn.kyc_verified = 0
      /\ txn.transaction_amount <= 50000 )
    => \A a \in {b \in Amounts : b > 50000} :
          evaluate_transaction(rules, [txn EXCEPT !.transaction_amount = a],
                               ml, transactions).risk_score
            >= result.risk_score

\* just below: 0.55 from the KYC rule alone; above it becomes 0.70
C20_Witness ==
    /\ call.op = "evaluate_transaction"
    /\ EvaluatedWithMl
    /\ txn.kyc_verified = 0
    /\ txn.transaction_amount = 50000
    /\ result.risk_score = RiskKycLow
    /\ evaluate_transaction(rules, [txn EXCEPT !.transaction_amount = 50001],
                            ml, transactions).risk_score = RiskKycHigh

-----------------------------------------------------------------------------
(* Rules that raise *)

CatalogWithout(names) == SelectSeq(rules, LAMBDA r : r.name \notin names)

\* C15: when a rule raises, evaluate_transaction still returns a decision; the
\* rule counts as not triggered, the rules after it are evaluated, and the
\* result is that of the catalog without the failing rule.
C15_FailingRuleSkipped ==
    (Evaluated /\ call.op # "init") =>
        /\ result.final_prediction \in {"Fraud", "Legitimate"}
        /\ \A i \in Triggered : result.rule_details[i].name \notin faults
        /\ result = evaluate_transaction(CatalogWithout(faults), txn,
                                          IF frame.mode = "ml" THEN ml ELSE NoMl,
                                          transactions)

\* the first rule of the catalog raises on a transaction it would flag, and the
\* last rule of the catalog is still reported
C15_Witness ==
    /\ call.op = "evaluate_transaction"
    /\ faults = {"high_amount_unverified_kyc"}
    /\ check_high_amount_unverified(txn).triggered
    /\ result.rules_count >= 2
    /\ result.rule_details[result.rules_count].name = "good_customer_history"

-----------------------------------------------------------------------------
(* The two amount rules, as reported by evaluate_transaction *)

\* the positions of a rule in the reported rule_details
Reported(name) == {i \in Triggered : result.rule_details[i].name = name}

-----------------------------------------------------------------------------
(* evaluate_transaction without an ML prediction *)

\* C30: without an ML prediction the label is Fraud exactly when at least one
\* rule triggered, whatever its contribution (discounts alone give Fraud); the
\* risk score is rule_risk_score and no amount floor is applied; create_alert
\* takes that label when it is handed the rule evaluation alone.
C30_RulesOnly ==
    (EvaluatedRulesOnly /\ call.op \in {"evaluate_transaction", "create_alert"}) =>
        /\ (result.final_prediction = "Fraud") <=> (result.rules_count >= 1)
        /\ result.final_prediction \in {"Fraud", "Legitimate"}
        /\ result.risk_score = result.rule_risk_score
        /\ result.risk_score = Round4(Max(0, MaxPositive + SumNegative))
        /\ call.op = "create_alert" =>
              /\ call.label = result.final_prediction
              /\ (result.rules_count >= 1 /\ txn.customer_id # NoCustomer)
                    => call.ret # NoAlertId
              /\ call.ret # NoAlertId
                    => (result.rules_count >= 1 /\ alerts[1].risk_score = result.risk_score)

\* $60,000 with the established-customer discount alone: Fraud at score 0, no
\* floor, and an alert is raised for it
C30_Witness ==
    /\ EvaluatedRulesOnly
    /\ call.op = "create_alert"
    /\ txn.transaction_amount = 60000
    /\ result.rules_count >= 1
    /\ \A i \in Triggered : Contribution(i) < 0
    /\ result.final_prediction = "Fraud"
    /\ result.risk_score = 0
    /\ call.ret # NoAlertId

-----------------------------------------------------------------------------
(* A label forced by a rule, and the severity of its alert *)

\* some triggered rule contributes more than 0.5
RuleForced == \E i \in Triggered : Contribution(i) > HighPriorityCut

AtLeastMedium == {"MEDIUM", "HIGH", "CRITICAL"}

\* what C28 says of one evaluated call and of the alert raised from its result
ForcedFraudScores ==
    /\ \A i \in Triggered : Contribution(i) > HighPriorityCut =>
          /\ result.final_prediction = "Fraud"
          /\ frame.final_risk_score >= Contribution(i)
          /\ result.risk_score > HighPriorityCut
    /\ (RuleForced /\ call.op = "create_alert" /\ call.passed \in {"both", "rules"})
          => (txn.customer_id # NoCustomer =>
                 /\ call.ret # NoAlertId
                 /\ alerts[1].severity \in AtLeastMedium)
    /\ (result.final_prediction = "Fraud" /\ result.risk_score < HighPriorityCut)
          => /\ ~RuleForced
             /\ EvaluatedWithMl
             /\ ml.prediction = "Fraud"

\* C28 (as stated): whenever some triggered rule contributes more than 0.5 the
\* label is Fraud, the final risk score is at least that contribution and above
\* 0.5, and the alert is MEDIUM or higher; a Fraud decision scored below 0.5
\* comes from the estimator's raw label only.
C28_AsStated ==
    (Evaluated /\ call.op \in {"evaluate_transaction", "create_alert"})
        => ForcedFraudScores

\* C28 (amended): the same, for calls that are handed an estimator prediction.
C28_RuleForcedFraud ==
    (EvaluatedWithMl /\ call.op \in {"evaluate_transaction", "create_alert"})
        => ForcedFraudScores

\* the odd-hour rule (0.60) forces Fraud against an estimate of 0 and all three
\* discounts, and the alert raised from the result is MEDIUM
C28_Witness ==
    /\ EvaluatedWithMl
    /\ call.op = "create_alert"
    /\ call.passed = "both"
    /\ estimate = 0
    /\ ml.prediction = "Legitimate"
    /\ RuleForced
    /\ SumNegative = 0 - (DiscountLowAmount + DiscountEstablished + DiscountHistory)
    /\ result.final_prediction = "Fraud"
    /\ result.risk_score = RiskOddHour
    /\ alerts[1].severity = "MEDIUM"

-----------------------------------------------------------------------------
(* The CHECK constraints of fraud_alerts *)

-----------------------------------------------------------------------------
(* What the two operations of the alert store leave alone *)

\* the columns no update_alert_status call writes
SameDecision(old, new) ==
    /\ new.alert_id = old.alert_id
    /\ new.transaction_id = old.transaction_id
    /\ new.customer_id = old.customer_id
    /\ new.alert_type = old.alert_type
    /\ new.severity = old.severity
    /\ new.risk_score = old.risk_score
    /\ new.ml_prediction = old.ml_prediction
    /\ new.triggered_rules = old.triggered_rules
    /\ new.created_at = old.created_at

SameResolution(old, new) ==
    /\ new.resolved_at = old.resolved_at
    /\ new.resolved_by = old.resolved_by
    /\ new.resolution_notes = old.resolution_notes

\* C29: update_alert_status(alert_id, ...) changes only the status, updated_at
\* and, for a terminal status, the resolution fields of the alert with that id;
\* its risk score, severity, type, transaction id, customer id and triggered
\* rules stay, no other alert changes, and an id that does not exist creates
\* no alert; create_alert never modifies an existing alert.
C29_Frame ==
    [][ /\ call'.op = "update_alert_status" =>
              /\ Len(alerts') = Len(alerts)
              /\ seq' = seq
              /\ \A i \in Rows :
                    /\ alerts[i].alert_id # call'.alert_id => alerts'[i] = alerts[i]
                    /\ SameDecision(alerts[i], alerts'[i])
                    /\ call'.status \notin Terminal => SameResolution(alerts[i], alerts'[i])
        /\ call'.op \in {"create_alert", "predict_fraud"} =>
              /\ Len(alerts') >= Len(alerts)
              /\ \A i \in Rows : alerts'[i] = alerts[i]
      ]_vars

\* the second of two alerts was resolved; the first is as it was created
C29_Witness ==
    /\ call.op = "update_alert_status"
    /\ call.alert_id = 2
    /\ Len(alerts) = 2
    /\ alerts[2].alert_id = 2
    /\ alerts[2].status = "RESOLVED"
    /\ alerts[2].resolved_at # NullTime
    /\ alerts[1].status = "NEW"
    /\ alerts[1].updated_at = alerts[1].created_at

\* an update for an id no alert has
C29_WitnessNoSuchId ==
    /\ call.op = "update_alert_status"
    /\ Len(alerts) = 1
    /\ call.alert_id = 2
    /\ alerts[1].alert_id = 1

-----------------------------------------------------------------------------
(* SpecRequests: /api/predict from the JSON body on.  A body gives each field *)
(* as a JSON value or leaves it out.                                          *)

JStr(x)  == [t |-> "str", s |-> x, n |-> 0]
JNum(x)  == [t |-> "num", s |-> "", n |-> x]
JBool(b) == [t |-> "bool", s |-> "", n |-> IF b THEN 1 ELSE 0]
JNull    == [t |-> "null", s |-> "", n |-> 0]
Missing  == [t |-> "missing", s |-> "", n |-> 0]

Body(id, cid, amt, kyc, age, ch) ==
    [transaction_id |-> id, customer_id |-> cid, transaction_amount |-> amt,
     kyc_verified |-> kyc, account_age_days |-> age, channel |-> ch]

MaxCustomerIdLen == 100
MaxAmount        == 10000000
MaxAccountAge    == 36500
valid_channels   == {"atm", "mobile", "web", "pos", "international", "other"}

\* float(value): the number, or ValueError / TypeError
Float(v) ==
    CASE v.t \in {"num", "bool"}      -> [ok |-> TRUE, x |-> v.n]
      [] v.t = "str" /\ v.s = "100"  -> [ok |-> TRUE, x |-> 100]
      [] OTHER                       -> [ok |-> FALSE, x |-> 0]

Ok == "ok"

\* 0 <= age_days <= 36500
AgeInRangeFromZero(age) == age.x >= 0
AgeInRange(age) == age.x >= 0 /\ age.x <= MaxAccountAge

\* the checks of predict_fraud before STEP 1, in their order: the error of the
\* first one that fails, or Ok
Validate(data) ==
    LET amount == Float(data.transaction_amount)
        age    == Float(data.account_age_days)
    IN  IF \A f \in DOMAIN data : data[f].t = "missing" THEN "No data provided"
        ELSE IF data.customer_id.t = "missing" \/ data.transaction_amount.t = "missing"
        THEN "Missing required fields"
        ELSE IF \/ data.customer_id.t # "str"
                \/ Len(data.customer_id.s) = 0
                \/ Len(data.customer_id.s) > MaxCustomerIdLen
        THEN "Invalid customer_id format"
        ELSE IF ~amount.ok THEN "Invalid transaction amount format"
        ELSE IF amount.x < 0 THEN "Transaction amount must be positive"
        ELSE IF amount.x > MaxAmount THEN "Transaction amount exceeds maximum allowed"
        ELSE IF /\ data.kyc_verified.t # "missing"
                /\ ~(data.kyc_verified.t \in {"num", "bool"} /\ data.kyc_verified.n \in {0, 1})
        THEN "kyc_verified must be 0/1 or true/false"
        ELSE IF data.account_age_days.t # "missing" /\ ~age.ok
        THEN "Invalid account_age_days format"
        ELSE IF data.account_age_days.t # "missing" /\ ~AgeInRange(age)
        THEN "account_age_days must be between 0 and 36500"
        ELSE IF /\ data.channel.t # "missing"
                /\ ~(data.channel.t = "str" /\ Lower(data.channel.s) \in valid_channels)
        THEN "channel must be one of"
        ELSE Ok

\* the transaction the predictor and the rules read from a body that passed:
\* data.get(field, default) with the defaults of rule_engine.py
Transaction(data) ==
    Txn(data.transaction_id.s, data.customer_id.s, Float(data.transaction_amount).x,
        IF data.kyc_verified.t = "missing" THEN 0 ELSE data.kyc_verified.n,
        IF data.account_age_days.t = "missing" THEN 0 ELSE Float(data.account_age_days).x,
        IF data.channel.t = "missing" THEN "" ELSE data.channel.s,
        NoTimestamp)

\* the answer to a body that fails a check: 400 with the error, nothing else
Rejected(data, e, error) ==
    [op |-> "predict_fraud", http |-> 400, request |-> <<NoTxn, e, data>>,
     error |-> error, label |-> "none", risk_score |-> 0,
     triggered_rules |-> <<>>, ret |-> NoAlertId]

\* one body that passes with every field given, and bodies that differ from a
\* plain one in a single field
Plain(cid, amt) == Body(JStr("T3"), cid, amt, Missing, Missing, Missing)
Bodies ==
    { Body(JStr("T2"), JStr("C2"), JNum(60000), JNum(0), JNum(6), JStr("International")),
      Body(JStr("T1"), JStr("C1"), JStr("100"), JBool(TRUE), JNum(365), JStr("web")),
      Body(Missing, Missing, Missing, Missing, Missing, Missing),
      Plain(Missing, JNum(1000)),
      Plain(JStr("C2"), Missing),
      Plain(JStr(""), JNum(1000)),
      Plain(JStr("CCCCCCCCCCCCCCCCCCCCCCCCCCCCCCCCCCCCCCCCCCCCCCCCCCCCCCCCCCCCCCCCCCCCCCCCCCCCCCCCCCCCCCCCCCCCCCCCCCCCC"), JNum(1000)),
      Plain(JNum(5), JNum(1000)),
      Plain(JStr("C2"), JNum(0 - 100)),
      Plain(JStr("C2"), JStr("not_a_number")),
      Plain(JStr("C2"), JNull),
      Plain(JStr("C2"), JNum(0)),
      Plain(JStr("C2"), JNum(MaxAmount - 1)),
      Plain(JStr("C2"), JNum(MaxAmount)),
      Plain(JStr("C2"), JNum(MaxAmount + 1)),
      Plain(JStr("C2"), JNum(10 * MaxAmount)),
      [Plain(JStr("C2"), JNum(1000)) EXCEPT !.kyc_verified = JNum(5)],
      [Plain(JStr("C2"), JNum(1000)) EXCEPT !.kyc_verified = JStr("invalid")],
      [Plain(JStr("C2"), JNum(1000)) EXCEPT !.account_age_days = JNum(0 - 10)],
      [Plain(JStr("C2"), JNum(1000)) EXCEPT !.account_age_days = JNum(MaxAccountAge)],
      [Plain(JStr("C2"), JNum(1000)) EXCEPT !.account_age_days = JNum(MaxAccountAge + 1)],
      [Plain(JStr("C2"), JNum(1000)) EXCEPT !.account_age_days = JStr("old")],
      [Plain(JStr("C2"), JNum(1000)) EXCEPT !.channel = JStr("InvalidChannel")],
      [Plain(JStr("C2"), JNum(1000)) EXCEPT !.channel = JNum(5)] }

\* the estimate the model gives a request
RequestEstimates == {0, 900000}

\* predict_fraud, the whole handler: a body that fails a check is answered 400
\* before the predictor is fetched; one that passes goes through STEP 1 to 7
PredictRequest ==
    /\ now <= MaxClock
    /\ \E data \in Bodies, e \in RequestEstimates :
       \E error \in {Validate(data)} :
          IF error # Ok
          THEN /\ call' = Rejected(data, e, error)
               /\ UNCHANGED <<alerts, seq, transactions, now>>
          ELSE ServePrediction(<<Transaction(data), e, data>>, TRUE, TRUE, TRUE)
    /\ issued' = IF call'.ret # NoAlertId THEN issued \cup {call'.ret} ELSE issued
    /\ UNCHANGED <<rules, threshold, txn, estimate, ml, result, frame, faults, conn>>

NextRequests == PredictRequest

SpecRequests == Init /\ [][NextRequests]_vars

\* the body a predict_fraud answer belongs to
BodyOf(c) == c.request[3]

\* the ways of failing validation that C22 lists
FailsValidation(data) ==
    LET amount == data.transaction_amount
        age    == data.account_age_days
    IN  \/ data.customer_id.t = "missing"
        \/ amount.t = "missing"
        \/ data.customer_id.t = "str" /\ Len(data.customer_id.s) = 0
        \/ data.customer_id.t = "str" /\ Len(data.customer_id.s) > 100
        \/ amount.t = "num" /\ amount.n < 0
        \/ amount.t \in {"null", "str"} /\ amount.s # "100"
        \/ amount.t = "num" /\ amount.n > 10000000
        \/ data.kyc_verified.t \notin {"missing", "bool"}
              /\ ~(data.kyc_verified.t = "num" /\ data.kyc_verified.n \in {0, 1})
        \/ age.t = "num" /\ (age.n < 0 \/ age.n > 36500)
        \/ data.channel.t \notin {"missing", "str"}
        \/ data.channel.t = "str"
              /\ data.channel.s \notin {"ATM", "Mobile", "Web", "POS", "International", "Other",
                                         "atm", "mobile", "web", "pos", "international", "other"}

C23_TenMillionRejected ==
    [][ (call'.op = "predict_fraud" /\ BodyOf(call').transaction_amount.t = "num") =>
          /\ BodyOf(call').transaction_amount.n >= 10000000 => call'.http = 400
          /\ BodyOf(call') = Plain(JStr("C2"), JNum(9999999)) => call'.http = 200
      ]_vars

-----------------------------------------------------------------------------
(* SpecQueries: GET /api/alerts on a table that already holds alerts *)

DefaultLimit == 50
MaxLimit     == 500
NoFilter     == "none"      \* a query parameter that is not given (None)

\* the i-th alert of the table: created by create_alert for customer C2, the
\* score and with it the severity varying, some of them updated since
StoredAlert(i) ==
    LET risk   == CASE i % 4 = 0 -> 300000
                    [] i % 4 = 1 -> 600000
                    [] i % 4 = 2 -> 700000
                    [] OTHER     -> 950000
        status == CASE i % 5 = 0 -> "NEW"
                    [] i % 5 = 1 -> "INVESTIGATING"
                    [] i % 5 = 2 -> "RESOLVED"
                    [] i % 5 = 3 -> "FALSE_POSITIVE"
                    [] OTHER     -> "CONFIRMED"
    IN  [alert_id         |-> i,
         transaction_id   |-> "T2",
         customer_id      |-> "C2",
         alert_type       |-> "HYBRID",
         severity         |-> Severity(risk),
         status           |-> status,
         risk_score       |-> risk,
         ml_prediction    |-> "Fraud",
         triggered_rules  |-> <<>>,
         created_at       |-> i,
         updated_at       |-> IF status = "NEW" THEN i ELSE i + 1,
         resolved_at      |-> IF status \in Terminal THEN i + 1 ELSE NullTime,
         resolved_by      |-> IF status \in Terminal THEN "analyst" ELSE Null,
         resolution_notes |-> IF status \in Terminal THEN "checked" ELSE Null]

\* how many alerts the table holds when the queries come
TableSizes == {0, 3, MaxLimit, MaxLimit + 1}

InitQueries ==
    /\ rules = load_rules
    /\ threshold = DefaultThreshold
    /\ transactions = [c \in Customers |-> NoHistory]
    /\ txn = NoTxn
    /\ estimate = 0
    /\ ml = NoMl
    /\ result = NoResult
    /\ frame = NoFrame
    /\ \E n \in TableSizes :
          /\ alerts = [i \in 1..n |-> StoredAlert(i)]
          /\ seq = n
          /\ now = n + 2
          /\ issued = 1..n
    /\ call = NoCall
    /\ faults = {}
    /\ conn = Closed

\* SELECT * FROM fraud_alerts WHERE ... ORDER BY created_at DESC LIMIT ?
\* (a negative LIMIT is no limit in SQLite)
get_alerts(customer_id, severity, status, limit) ==
    LET newest_first == Reverse(alerts)
        selected == SelectSeq(newest_first,
                              LAMBDA r : /\ customer_id = NoFilter \/ r.customer_id = customer_id
                                         /\ severity = NoFilter \/ r.severity = severity
                                         /\ status = NoFilter \/ r.status = status)
    IN  IF limit < 0 THEN selected
        ELSE SubSeq(selected, 1, Min(limit, Len(selected)))

\* the limit parameter as sent: left out, an integer, or not an integer
LimitArgs    == {Missing, JNum(0 - 1), JNum(0), JNum(2), JNum(MaxLimit),
                 JNum(MaxLimit + 1), JStr("abc")}
SeverityArgs == {NoFilter, "HIGH", "SEVERE"}
StatusArgs   == {NoFilter, "NEW"}

\* GET /api/alerts: limit = min(int(request.args.get('limit', 50)), 500); an
\* exception (int() of a non-integer) is answered 500
GetAlerts ==
    /\ \E l \in LimitArgs, severity \in SeverityArgs, status \in StatusArgs :
          IF l.t = "str"
          THEN call' = [op |-> "get_alerts", http |-> 500, limit |-> l,
                        severity |-> severity, status |-> status,
                        alerts |-> <<>>, count |-> 0]
          ELSE \E limit \in {Min(IF l.t = "missing" THEN DefaultLimit ELSE l.n, MaxLimit)} :
               \E found \in {get_alerts(NoFilter, severity, status, limit)} :
                  call' = [op |-> "get_alerts", http |-> 200, limit |-> l,
                           severity |-> severity, status |-> status,
                           alerts |-> found, count |-> Len(found)]
    /\ UNCHANGED <<rules, threshold, transactions, txn, estimate, ml, result, frame,
                   alerts, seq, now, faults, conn, issued>>

NextQueries == GetAlerts

SpecQueries == InitQueries /\ [][NextQueries]_vars

\* C24: /api/alerts returns at most 500 alerts whatever the limit parameter
\* is, at most limit alerts when the limit is not negative, and every alert
\* it returns matches the severity and status filters given.
C24_BoundedAlerts ==
    call.op = "get_alerts" =>
        /\ Len(call.alerts) <= 500
        /\ (call.limit.t = "num" /\ call.limit.n >= 0) => Len(call.alerts) <= call.limit.n
        /\ \A i \in 1..Len(call.alerts) :
              /\ call.severity # NoFilter => call.alerts[i].severity = call.severity
              /\ call.status # NoFilter => call.alerts[i].status = call.status

-----------------------------------------------------------------------------
(* SpecCatalog: rules added through add_rule before the engine is used *)

MaxAdded == 2

\* the rules a caller adds, in the order of the calls, each at one of these
\* priorities: level with the last, a middle and the first rule of load_rules,
\* or above them all
CustomNames      == <<"custom_a", "custom_b", "custom_c">>
CustomPriorities == {1, 3, 6, 7}

CatalogTxns ==
    {Txn("T1", "C1", a, k, d, ch, h) :
        a \in {100, 60000}, k \in {0, 1}, d \in {6, 365}, ch \in Channels,
        h \in {NoTimestamp, suspicious_hour_start}}

InitCatalog ==
    /\ rules = load_rules
    /\ threshold = DefaultThreshold
    /\ transactions = [c \in Customers |-> IF c = "C1" THEN History(10, 0, 10, 10000) ELSE NoHistory]
    /\ txn \in CatalogTxns
    /\ estimate = 0
    /\ ml = NoMl
    /\ result = NoResult
    /\ frame = NoFrame
    /\ alerts = <<>>
    /\ seq = 0
    /\ now = 0
    /\ call = NoCall
    /\ faults = {}
    /\ conn = Closed
    /\ issued = {}

Added == Len(rules) - Len(load_rules)

\* rule_engine.add_rule(name, func, priority) with reason left out
AddRule ==
    /\ call.op = "init"
    /\ Added < MaxAdded
    /\ Added < Len(CustomNames)
    /\ \E p \in CustomPriorities :
          rules' = add_rule(rules, Rule(CustomNames[Added + 1], p, CustomNames[Added + 1]))
    /\ UNCHANGED <<threshold, transactions, txn, estimate, ml, result, frame, alerts, seq,
                   now, call, faults, conn, issued>>

NextCatalog == AddRule \/ Predict \/ Evaluate \/ EvaluateRulesOnly

SpecCatalog == InitCatalog /\ [][NextCatalog]_vars

\* the order in which the rules were registered: the list of load_rules, then
\* the add_rule calls
Registered ==
    <<"high_amount_unverified_kyc", "new_account_high_amount", "high_amount_vs_average",
      "international_unverified", "odd_hour_transaction", "low_amount_trust",
      "established_customer_discount", "good_customer_history">> \o CustomNames
RegisteredAt(name) == CHOOSE k \in 1..Len(Registered) : Registered[k] = name

\* C21: rules_triggered and rule_details list the triggered rules in descending
\* priority, rules of equal priority in the order they were registered, rules
\* added through add_rule included.
C21_ReportingOrder ==
    (Evaluated /\ call.op = "evaluate_transaction") =>
        /\ Len(result.rules_triggered) = Len(result.rule_details)
        /\ \A i \in Triggered : result.rules_triggered[i] = result.rule_details[i].reason
        /\ \A i, j \in Triggered : i < j =>
              \/ result.rule_details[i].priority > result.rule_details[j].priority
              \/ /\ result.rule_details[i].priority = result.rule_details[j].priority
                 /\ RegisteredAt(result.rule_details[i].name)
                      < RegisteredAt(result.rule_details[j].name)

\* custom_a added at priority 6 and custom_b at priority 1: custom_a is reported
\* right after the built-in rule of priority 6 and custom_b last, after the
\* built-in rules of priority 1
C21_Witness ==
    /\ Evaluated
    /\ call.op = "evaluate_transaction"
    /\ result.rules_count >= 4
    /\ result.rule_details[1].name = "high_amount_unverified_kyc"
    /\ result.rule_details[2].name = "custom_a"
    /\ result.rule_details[2].priority = 6
    /\ result.rule_details[result.rules_count].name = "custom_b"
    /\ result.rule_details[result.rules_count].priority = 1
    /\ result.rule_details[result.rules_count - 1].priority = 1

====
